---- MODULE Spec2Model ----
(***************************************************************************)
(* TokenDetailsModal (app/components/TokenDetailsModal.tsx): the state of  *)
(* one modal instance, its fetch lifecycle, the header merge rules and the *)
(* synthetic price series (chartData).                                     *)
(*                                                                         *)
(* Numbers.  A JavaScript number is modelled as a pair <<n, d>>: the exact *)
(* rational n/d (d > 0, lowest terms), or one of the IEEE-754 specials     *)
(* <<1,0>> = +Infinity, <<-1,0>> = -Infinity, <<0,0>> = NaN.  Arithmetic   *)
(* follows IEEE-754 on the specials and is exact on the rationals: binary  *)
(* rounding and the sign of zero are not modelled.                         *)
(*                                                                         *)
(* Strings.  A symbol is a sequence of one-character strings (so that      *)
(* toUpperCase is computed character by character); <<>> stands for every  *)
(* falsy value of a symbol (undefined, null, "").  Names, logos and mints  *)
(* are TLA+ strings, "" standing for every falsy value.  An optional       *)
(* object is <<>> (null / undefined) or <<object>>.                        *)
(***************************************************************************)
EXTENDS Integers, Sequences, FiniteSets, TLC

VARIABLES
    isOpen,             \* prop
    tokenMint,          \* prop: a mint, or "" for null
    tokenSymbol,        \* prop: a symbol, <<>> when not supplied
    existingTokenData,  \* prop: <<>> or <<TokenHolding>>
    isAnimating,        \* useState(false)
    analytics,          \* useState(null): <<>> or <<TokenAnalytics>>
    loading,            \* useState(false)
    error,              \* useState(null): "" for null
    selectedTimeFrame,  \* useState("1D")
    memo,               \* the useMemo cell of chartData: what its last run read
    inflight,           \* the pending getTokenAnalytics calls, in call order
    animTimer,          \* the effect's 300 ms setIsAnimating(false) timer is armed
    closeTimers,        \* armed setTimeout(onClose, 300) timers
    rolls,              \* Math.random(): the generator's cycle of draws
    pos,                \* Math.random(): the position of the next draw in rolls
    tick                \* Date.now(): ms the clock advances between two readings

vars == <<isOpen, tokenMint, tokenSymbol, existingTokenData, isAnimating,
          analytics, loading, error, selectedTimeFrame, memo,
          inflight, animTimer, closeTimers, rolls, pos, tick>>

propVars  == <<isOpen, tokenMint, tokenSymbol, existingTokenData>>
timerVars == <<animTimer, closeTimers>>
envVars   == <<rolls, tick>>

-----------------------------------------------------------------------------
(* Bounds of the model *)

MaxInFlight == 2        \* getTokenAnalytics calls pending at once
MaxCloseTimers == 1     \* armed onClose timers at once
MaxTick == 1            \* ms the clock advances between two readings
Now0 == 90000000        \* Date.now() when a chartData run starts (ms)

-----------------------------------------------------------------------------
(* JavaScript numbers *)

Abs(x) == IF x < 0 THEN -x ELSE x

Sign(x) == IF x > 0 THEN 1 ELSE IF x < 0 THEN -1 ELSE 0

RECURSIVE Gcd(_, _)
Gcd(a, b) == IF b = 0 THEN a ELSE Gcd(b, a % b)

\* <<n, d>> in canonical form
Norm(n, d) ==
    IF d = 0 THEN <<Sign(n), 0>>
    ELSE LET g == Gcd(Abs(n), Abs(d))
             s == Sign(d)
         IN  <<(s * n) \div g, (s * d) \div g>>

Num(n) == <<n, 1>>
Frac(n, d) == Norm(n, d)
PosInfinity == <<1, 0>>
NegInfinity == <<-1, 0>>
NaN == <<0, 0>>

IsNaN(x) == x = NaN
IsFinite(x) == x[2] # 0

\* x + y
Add(x, y) ==
    IF x[2] = 0 /\ y[2] = 0
    THEN (IF x[1] = y[1] THEN x ELSE NaN)
    ELSE LET g == Gcd(x[2], y[2])
         IN  Norm(x[1] * (y[2] \div g) + y[1] * (x[2] \div g),
                  x[2] * (y[2] \div g))

Neg(x) == <<-x[1], x[2]>>

\* x - y
Sub(x, y) == Add(x, Neg(y))

\* x * y
Mul(x, y) == Norm(x[1] * y[1], x[2] * y[2])

\* x / y  (y = 0 is +0: Infinity, -Infinity or NaN by the sign of x)
Div(x, y) ==
    IF x[2] = 0 /\ y[2] = 0 THEN NaN
    ELSE IF y[1] < 0 THEN Norm(-(x[1] * y[2]), -(x[2] * y[1]))
    ELSE Norm(x[1] * y[2], x[2] * y[1])

\* x < y  (false when either is NaN)
Less(x, y) ==
    /\ ~IsNaN(x)
    /\ ~IsNaN(y)
    /\ x # y
    /\ IF x[2] = 0 THEN x[1] < 0
       ELSE IF y[2] = 0 THEN y[1] > 0
       ELSE LET g == Gcd(x[2], y[2])
            IN  x[1] * (y[2] \div g) < y[1] * (x[2] \div g)

Leq(x, y) == (x = y /\ ~IsNaN(x)) \/ Less(x, y)

\* Math.max(x, y): NaN when either is NaN
MathMax(x, y) ==
    IF IsNaN(x) \/ IsNaN(y) THEN NaN
    ELSE IF Less(x, y) THEN y ELSE x

-----------------------------------------------------------------------------
(* chartData: the synthetic price history *)

Points == 24

MsPerHour == 60 * 60 * 1000

\* the floor of Math.max(finalPrice, 0.0001)
Epsilon == Frac(1, 10000)

\* Math.random() returns a number in [0, 1): a generator is a cycle of
\* draws, read from a position that moves on with every draw.  0 is the
\* least draw, 1/2 makes volatility 0, 99/100 stands for the greatest.
\* The first generator disables the perturbation; the second gives every
\* loop iteration every draw, from one position or another
Generators ==
    {<<Frac(1, 2)>>,
     <<Num(0), Frac(1, 4), Frac(1, 2), Frac(3, 4), Frac(99, 100)>>}

\* the draw of loop iteration i of a chartData run that starts at position p
Draw(gen, p, i) == gen[((p + i) % Len(gen)) + 1]

\* the position after the points draws of one chartData run
Advance(gen, p) == (p + Points) % Len(gen)

\* Date.now() is read twice in each iteration (timestamp, then time); the
\* k-th reading of a run, k in 0..2*points-1: the clock never runs backwards
Now(tk, k) == Now0 + tk * k

\* startPrice = currentPrice / (1 + priceChange24h / 100)
StartPrice(currentPrice, priceChange24h) ==
    Div(currentPrice, Add(Num(1), Div(priceChange24h, Num(100))))

\* Progress with the division by points instead of points - 1
ProgressOverPoints(i) == Div(Num(i), Num(Points))

\* progress = i / (points - 1)
Progress(i) == Div(Num(i), Num(Points - 1))

\* volatility = (Math.random() - 0.5) * 0.02
Volatility(r) == Mul(Sub(r, Frac(1, 2)), Frac(2, 100))

\* trendPrice = startPrice + (currentPrice - startPrice) * progress
TrendPrice(startPrice, currentPrice, i) ==
    Add(startPrice, Mul(Sub(currentPrice, startPrice), Progress(i)))

\* finalPrice = trendPrice * (1 + volatility)
FinalPrice(trendPrice, r) == Mul(trendPrice, Add(Num(1), Volatility(r)))

\* Math.max(finalPrice, 0.0001)
FlooredPrice(finalPrice) == MathMax(finalPrice, Epsilon)

\* Timestamp without the loop index: every point gets the same hour
TimestampNoIndex(now, i) == now - Points * MsPerHour

\* Date.now() - (points - i) * 60 * 60 * 1000
Timestamp(now, i) == now - (Points - i) * MsPerHour

\* toLocaleTimeString("en-US", {hour: "2-digit", minute: "2-digit"}), in a
\* zone at UTC: <<hour of the 12-hour clock, minute, day period>>
TimeLabel(ms) ==
    LET m == (ms \div 60000) % 1440
        h == m \div 60
    IN  <<IF h % 12 = 0 THEN 12 ELSE h % 12, m % 60,
          IF h < 12 THEN "AM" ELSE "PM">>

\* the loop body for iteration i, drawing r: the point pushed to data
PricePoint(startPrice, currentPrice, i, r, tk) ==
    [timestamp |-> Timestamp(Now(tk, 2 * i), i),
     price     |-> FlooredPrice(
                       FinalPrice(TrendPrice(startPrice, currentPrice, i), r)),
     time      |-> TimeLabel(Timestamp(Now(tk, 2 * i + 1), i))]

\* the useMemo body: [] without analytics, else the points of i = 0..points-1
\* (the sequence is 1-based: chartData[i + 1] is the code's data[i])
ChartData(an, gen, p, tk) ==
    IF an = <<>> THEN <<>>
    ELSE LET currentPrice == an[1].details.price
             priceChange24h == an[1].details.priceChange24h
             startPrice == StartPrice(currentPrice, priceChange24h)
         IN  [k \in 1 .. Points |->
                 PricePoint(startPrice, currentPrice, k - 1,
                            Draw(gen, p, k - 1), tk)]

-----------------------------------------------------------------------------
(* The values of the props and of the provider's responses *)

SOL_MINT == "So11111111111111111111111111111111111111112"

SOL_LOGO_URI ==
    "https://raw.githubusercontent.com/solana-labs/token-list/main/assets/mainnet/So11111111111111111111111111111111111111112/logo.png"

Mints == {SOL_MINT, "MintB"}

\* type TimeFrame
TimeFrames == {"1H", "1D", "1W", "1M", "YTD", "ALL"}

\* the symbol hint of a token, as the caller may pass it in tokenSymbol
HintOf(mint) == IF mint = SOL_MINT THEN <<"s", "o", "l">> ELSE <<"t", "k", "B">>

\* TokenHolding records the caller may pass for a mint: one with every
\* display field, one with none
Holdings(mint) ==
    {[mint |-> mint, symbol |-> <<"w", "S", "y", "m">>, name |-> "Held Name",
      logoUri |-> "https://held/logo.png"],
     [mint |-> mint, symbol |-> <<>>, name |-> "", logoUri |-> ""]}

\* what the caller may pass together: tokenMint, tokenSymbol, existingTokenData
Selections ==
    {<<"", <<>>, <<>>>>} \cup
    UNION {{<<m, h, e>> : h \in {<<>>, HintOf(m)},
                          e \in {<<>>} \cup {<<x>> : x \in Holdings(m)}} :
           m \in Mints}

\* the TokenAnalytics values getTokenAnalytics may resolve to for a mint (the
\* fields this component's state and header read; security, topHolders,
\* tradeData and totalHolders are only displayed)
Responses(mint) ==
    {IF mint = SOL_MINT
     THEN [details |-> [mint |-> mint, symbol |-> <<"w", "S", "o", "l">>,
                        name |-> "Wrapped SOL",
                        logoUri |-> "https://cdn/sol.png",
                        price |-> Frac(5, 4), priceChange24h |-> Num(25)]]
     ELSE [details |-> [mint |-> mint, symbol |-> <<"U", "s", "d", "c">>,
                        name |-> "Fetched Name",
                        logoUri |-> "https://cdn/logo.png",
                        price |-> Frac(5, 4), priceChange24h |-> Num(25)]],
     [details |-> [mint |-> mint, symbol |-> <<>>, name |-> "", logoUri |-> "",
                   price |-> Num(2), priceChange24h |-> Num(-50)]]}

-----------------------------------------------------------------------------
(* The header and the body of the render *)

LowerCase == <<"a", "b", "c", "d", "e", "f", "g", "h", "i", "j", "k", "l", "m",
               "n", "o", "p", "q", "r", "s", "t", "u", "v", "w", "x", "y", "z">>
UpperCase == <<"A", "B", "C", "D", "E", "F", "G", "H", "I", "J", "K", "L", "M",
               "N", "O", "P", "Q", "R", "S", "T", "U", "V", "W", "X", "Y", "Z">>

UpperChar(c) ==
    IF \E k \in 1 .. Len(LowerCase) : LowerCase[k] = c
    THEN UpperCase[CHOOSE k \in 1 .. Len(LowerCase) : LowerCase[k] = c]
    ELSE c

\* String.prototype.toUpperCase
ToUpperCase(s) == [k \in 1 .. Len(s) |-> UpperChar(s[k])]

\* headerLogo ("" for null)
HeaderLogo(an, ex) ==
    IF ex # <<>> /\ ex[1].mint = SOL_MINT THEN SOL_LOGO_URI
    ELSE IF an # <<>> /\ an[1].details.logoUri # "" THEN an[1].details.logoUri
    ELSE IF ex # <<>> /\ ex[1].logoUri # "" THEN ex[1].logoUri
    ELSE ""

\* headerName
HeaderName(an, ex) ==
    IF an # <<>> /\ an[1].details.name # "" THEN an[1].details.name
    ELSE IF ex # <<>> /\ ex[1].name # "" THEN ex[1].name
    ELSE "Asset"

\* HeaderSymbol with the caller's hint ranked above the existing record
HeaderSymbolHintFirst(an, ex, hint) ==
    ToUpperCase(
        IF an # <<>> /\ an[1].details.symbol # <<>> THEN an[1].details.symbol
        ELSE IF hint # <<>> THEN hint
        ELSE IF ex # <<>> /\ ex[1].symbol # <<>> THEN ex[1].symbol
        ELSE <<"A", "S", "S", "E", "T">>)

\* headerSymbol
HeaderSymbol(an, ex, hint) ==
    ToUpperCase(
        IF an # <<>> /\ an[1].details.symbol # <<>> THEN an[1].details.symbol
        ELSE IF ex # <<>> /\ ex[1].symbol # <<>> THEN ex[1].symbol
        ELSE IF hint # <<>> THEN hint
        ELSE <<"A", "S", "S", "E", "T">>)

headerLogo == HeaderLogo(analytics, existingTokenData)
headerName == HeaderName(analytics, existingTokenData)
headerSymbol == HeaderSymbol(analytics, existingTokenData, tokenSymbol)

\* the value the useMemo cell m holds, a function of what its last run read
\* (the analytics record an, the draws from position at, the clock)
MemoValue(m) == ChartData(m.an, rolls, m.at, tick)

chartData == MemoValue(memo)

\* what the render returns: nothing without a tokenMint, else the branch of
\* the scrollable content
View ==
    IF tokenMint = "" THEN "none"
    ELSE IF loading THEN "spinner"
    ELSE IF error # "" THEN "retry"
    ELSE IF analytics # <<>> THEN "content"
    ELSE "empty"

-----------------------------------------------------------------------------
(* The modal: initial state and handlers *)

\* the generator of the lifecycle specification: its period divides points,
\* so that every chartData run of that specification reads the same draws
SteadyGenerator == <<Num(0), Frac(1, 2), Frac(99, 100)>>

\* after the first render and its effect: closed, no token selected, the
\* effect's else branch has armed its timer
Init ==
    /\ isOpen = FALSE
    /\ tokenMint = ""
    /\ tokenSymbol = <<>>
    /\ existingTokenData = <<>>
    /\ isAnimating = FALSE
    /\ analytics = <<>>
    /\ loading = FALSE
    /\ error = ""
    /\ selectedTimeFrame = "1D"
    /\ memo = [an |-> <<>>, at |-> 0]
    /\ inflight = <<>>
    /\ animTimer = TRUE
    /\ closeTimers = 0
    /\ rolls = SteadyGenerator
    /\ pos = 0
    /\ tick = 0

\* the model's cap on pending calls
CanFetch == Len(inflight) < MaxInFlight

\* seq without its k-th element
RemoveAt(seq, k) == SubSeq(seq, 1, k - 1) \o SubSeq(seq, k + 1, Len(seq))

\* fetchTokenAnalytics up to its await, in a render whose tokenMint is mint:
\* return without a mint, else setLoading(true), setError(null) and the
\* getTokenAnalytics call, which becomes the latest pending call
FetchStart(mint) ==
    IF mint = ""
    THEN UNCHANGED <<loading, error, inflight>>
    ELSE /\ loading' = TRUE
         /\ error' = ""
         /\ inflight' = Append([k \in 1 .. Len(inflight) |->
                                    [inflight[k] EXCEPT !.latest = FALSE]],
                               [mint |-> mint, latest |-> TRUE])

\* the useEffect body of a render with isOpen = open and tokenMint = mint,
\* after the cleanup of the previous run (clearTimeout of its timer)
Effect(open, mint) ==
    IF open
    THEN /\ isAnimating' = TRUE
         /\ animTimer' = FALSE
         /\ FetchStart(mint)
    ELSE /\ animTimer' = TRUE
         /\ UNCHANGED <<isAnimating, loading, error, inflight>>

\* the useMemo of chartData recomputes (a dependency changed) in a render
\* whose analytics is an: the loop reads the clock and consumes its draws
Recompute(an) ==
    /\ memo' = [an |-> an, at |-> pos]
    /\ pos' = IF an = <<>> THEN pos ELSE Advance(rolls, pos)

\* the caller renders the modal with new props; the effect runs when isOpen
\* or tokenMint changed
ParentRender(open, sel) ==
    /\ <<open, sel[1], sel[2], sel[3]>> # propVars
    /\ isOpen' = open
    /\ tokenMint' = sel[1]
    /\ tokenSymbol' = sel[2]
    /\ existingTokenData' = sel[3]
    /\ IF open # isOpen \/ sel[1] # tokenMint
       THEN /\ (open /\ sel[1] # "") => CanFetch
            /\ Effect(open, sel[1])
       ELSE UNCHANGED <<isAnimating, loading, error, inflight, animTimer>>
    /\ UNCHANGED <<analytics, selectedTimeFrame, memo, closeTimers,
                   pos, envVars>>

\* fetchTokenAnalytics after its await: getTokenAnalytics resolved with data,
\* so setAnalytics(data), then finally setLoading(false); the render that
\* follows recomputes chartData because analytics changed
FetchFulfilled(k, data) ==
    /\ k \in 1 .. Len(inflight)
    /\ data \in Responses(inflight[k].mint)
    /\ analytics' = <<data>>
    /\ loading' = FALSE
    /\ inflight' = RemoveAt(inflight, k)
    /\ Recompute(analytics')
    /\ UNCHANGED <<propVars, isAnimating, error, selectedTimeFrame, timerVars,
                   envVars>>

\* FetchRejected that also drops the record of the previous fetch
FetchRejectedClearing(k) ==
    /\ k \in 1 .. Len(inflight)
    /\ error' = "Failed to load token data"
    /\ loading' = FALSE
    /\ analytics' = <<>>
    /\ inflight' = RemoveAt(inflight, k)
    /\ UNCHANGED <<propVars, isAnimating, selectedTimeFrame, memo, timerVars,
                   pos, envVars>>

\* fetchTokenAnalytics after its await: getTokenAnalytics threw, so
\* setError(...), then finally setLoading(false)
FetchRejected(k) ==
    /\ k \in 1 .. Len(inflight)
    /\ error' = "Failed to load token data"
    /\ loading' = FALSE
    /\ inflight' = RemoveAt(inflight, k)
    /\ UNCHANGED <<propVars, isAnimating, analytics, selectedTimeFrame,
                   memo, timerVars, pos, envVars>>

\* the Retry button (rendered in the error branch): fetchTokenAnalytics
Retry ==
    /\ View = "retry"
    /\ CanFetch
    /\ FetchStart(tokenMint)
    /\ UNCHANGED <<propVars, isAnimating, analytics, selectedTimeFrame,
                   memo, timerVars, pos, envVars>>

\* SelectTimeFrame that also shows the spinner, as a reload would
SelectTimeFrameReloading(timeframe) ==
    /\ View = "content"
    /\ timeframe \in TimeFrames
    /\ IF timeframe = selectedTimeFrame
       THEN UNCHANGED <<selectedTimeFrame, memo, pos, loading>>
       ELSE /\ selectedTimeFrame' = timeframe
            /\ loading' = TRUE
            /\ Recompute(analytics)
    /\ UNCHANGED <<propVars, isAnimating, analytics, error, inflight,
                   timerVars, envVars>>

\* a Time Frame Selector button (rendered with the analytics content):
\* setSelectedTimeFrame(timeframe); a changed value re-renders and, being a
\* dependency of the useMemo, recomputes chartData
SelectTimeFrame(timeframe) ==
    /\ View = "content"
    /\ timeframe \in TimeFrames
    /\ IF timeframe = selectedTimeFrame
       THEN UNCHANGED <<selectedTimeFrame, memo, pos>>
       ELSE /\ selectedTimeFrame' = timeframe
            /\ Recompute(analytics)
    /\ UNCHANGED <<propVars, isAnimating, analytics, loading, error, inflight,
                   timerVars, envVars>>

\* handleClose (the Close button, a backdrop click, or handleSwap after
\* onSwapClick): setIsAnimating(false); setTimeout(onClose, 300)
HandleClose ==
    /\ tokenMint # ""
    /\ closeTimers < MaxCloseTimers
    /\ isAnimating' = FALSE
    /\ closeTimers' = closeTimers + 1
    /\ UNCHANGED <<propVars, analytics, loading, error, selectedTimeFrame,
                   memo, inflight, animTimer, pos, envVars>>

\* a setTimeout(onClose, 300) fires: onClose() is the caller's, which answers
\* with a ParentRender if it chooses to
CloseTimerFires ==
    /\ closeTimers > 0
    /\ closeTimers' = closeTimers - 1
    /\ UNCHANGED <<propVars, isAnimating, analytics, loading, error,
                   selectedTimeFrame, memo, inflight, animTimer, pos,
                   envVars>>

\* the effect's timer fires: setIsAnimating(false)
AnimTimerFires ==
    /\ animTimer
    /\ animTimer' = FALSE
    /\ isAnimating' = FALSE
    /\ UNCHANGED <<propVars, analytics, loading, error, selectedTimeFrame,
                   memo, inflight, closeTimers, pos, envVars>>

Next ==
    \/ \E open \in BOOLEAN, sel \in Selections : ParentRender(open, sel)
    \/ \E k \in 1 .. Len(inflight) :
          \E data \in Responses(inflight[k].mint) : FetchFulfilled(k, data)
    \/ \E k \in 1 .. Len(inflight) : FetchRejected(k)
    \/ Retry
    \/ \E timeframe \in TimeFrames : SelectTimeFrame(timeframe)
    \/ HandleClose
    \/ CloseTimerFires
    \/ AnimTimerFires

Spec == Init /\ [][Next]_vars

-----------------------------------------------------------------------------
(* The series reconstruction on its own: the modal shows the content of a   *)
(* record the provider returned, chartData has run once, and time frames    *)
(* are selected                                                             *)

ChartPrices == {Num(0), Frac(5, 4), Num(100)}
ChartChanges == {Num(-200), Num(-100), Num(0), Num(25)}

ChartInputs ==
    {[details |-> [mint |-> "MintB", symbol |-> <<"U", "s", "d", "c">>,
                   name |-> "Fetched Name", logoUri |-> "https://cdn/logo.png",
                   price |-> p, priceChange24h |-> c]] :
        p \in ChartPrices, c \in ChartChanges}

InitChart ==
    /\ isOpen = TRUE
    /\ tokenMint = "MintB"
    /\ tokenSymbol = <<>>
    /\ existingTokenData = <<>>
    /\ isAnimating = TRUE
    /\ analytics \in {<<a>> : a \in ChartInputs}
    /\ loading = FALSE
    /\ error = ""
    /\ selectedTimeFrame = "1D"
    /\ rolls \in Generators
    /\ tick \in 0 .. MaxTick
    /\ \E p \in 0 .. Len(rolls) - 1 :
          /\ memo = [an |-> analytics, at |-> p]
          /\ pos = Advance(rolls, p)
    /\ inflight = <<>>
    /\ animTimer = FALSE
    /\ closeTimers = 0

NextChart == \E timeframe \in TimeFrames : SelectTimeFrame(timeframe)

SpecChart == InitChart /\ [][NextChart]_vars

-----------------------------------------------------------------------------
(* Claims about chartData *)

currentPrice == analytics[1].details.price
priceChange24h == analytics[1].details.priceChange24h
startPrice == StartPrice(currentPrice, priceChange24h)

\* the trend value of loop iteration i for the analytics record of the state
trendPrice(i) == TrendPrice(startPrice, currentPrice, i)

\* C4: whenever an analytics record is present, chartData has exactly
\* points (24) elements and its timestamps strictly increase from the first
\* element to the last, whatever the record and the selected time frame.
C4_PointCountAndOrder ==
    LET data == chartData
    IN  analytics # <<>> =>
            /\ Len(data) = Points
            /\ \A k \in 1 .. Points - 1 :
                  data[k].timestamp < data[k + 1].timestamp

C4_Witness ==
    LET data == chartData
    IN  /\ analytics # <<>>
        /\ selectedTimeFrame = "YTD"
        /\ tick = 1
        /\ Len(data) = 24
        /\ data[24].timestamp - data[1].timestamp = 23 * MsPerHour + 46

\* C5 (as claimed): every price of the series is a number strictly greater
\* than the floor 0.0001, for every current price, every 24h change and
\* every draw.
C5_AllPricesAboveFloor ==
    LET data == chartData
    IN  \A k \in 1 .. Len(data) :
            /\ IsFinite(data[k].price)
            /\ Less(Epsilon, data[k].price)

\* the input of the series is degenerate: current price <= 0, or a 24h
\* change of exactly -100
DegenerateInput ==
    Leq(currentPrice, Num(0)) \/ priceChange24h = Num(-100)

\* C6 (as claimed): on a degenerate input chartData emits no series (it
\* fails) or the series of the fallback start = current, never a series
\* computed from an infinite or undefined start price.
C6_DegenerateInputGuarded ==
    LET data == chartData
    IN  (analytics # <<>> /\ DegenerateInput) =>
            \/ data = <<>>
            \/ \A k \in 1 .. Len(data) :
                  data[k].price =
                      FlooredPrice(FinalPrice(
                          TrendPrice(currentPrice, currentPrice, k - 1),
                          Draw(rolls, memo.at, k - 1)))

\* C9: for a current price > 0 and a 24h change other than -100, start is
\* current / (1 + change/100) (start * (1 + change/100) gives current back),
\* the trend value is start at index 0 and current at index 23, consecutive
\* trend values differ by the same step (current - start) / 23, and a point
\* drawn with volatility 0 carries its trend value (floored).
C9_TrendEndpoints ==
    LET data == chartData
    IN
    (analytics # <<>> /\ Less(Num(0), currentPrice)
                      /\ priceChange24h # Num(-100)) =>
        /\ Mul(startPrice, Add(Num(1), Div(priceChange24h, Num(100))))
              = currentPrice
        /\ trendPrice(0) = startPrice
        /\ trendPrice(Points - 1) = currentPrice
        /\ \A i \in 0 .. Points - 2 :
              Mul(Sub(trendPrice(i + 1), trendPrice(i)), Num(Points - 1))
                  = Sub(currentPrice, startPrice)
        /\ \A i \in 0 .. Points - 1 :
              Draw(rolls, memo.at, i) = Frac(1, 2) =>
                  data[i + 1].price = MathMax(trendPrice(i), Epsilon)

C9_Witness ==
    LET data == chartData
    IN  /\ analytics # <<>>
        /\ currentPrice = Frac(5, 4)
        /\ priceChange24h = Num(25)
        /\ rolls = <<Frac(1, 2)>>
        /\ data[1].price = Num(1)
        /\ data[24].price = Frac(5, 4)

\* the time span of a series of points elements: last timestamp minus first
Span(data) == data[Points].timestamp - data[1].timestamp

\* C10 (as claimed): selecting a time frame leaves the series as it was
\* (point count, time span and prices) and leaves analytics, loading and
\* error unchanged.
C10_SelectionKeepsSeries ==
    [][selectedTimeFrame' # selectedTimeFrame =>
          /\ Len(MemoValue(memo')) = Len(MemoValue(memo))
          /\ Span(MemoValue(memo')) = Span(MemoValue(memo))
          /\ \A k \in 1 .. Points :
                MemoValue(memo')[k].price = MemoValue(memo)[k].price
          /\ analytics' = analytics
          /\ loading' = loading
          /\ error' = error]_vars

\* C10 (amended): selecting another time frame re-runs the generation on
\* the unchanged analytics: point count and time span stay, and every price
\* is the trend value of its index perturbed by a fresh draw (the draws
\* the generator gives from its current position) and floored; analytics,
\* loading and error are unchanged.
C10_SelectionRegenerates ==
    [][selectedTimeFrame' # selectedTimeFrame =>
          /\ Len(MemoValue(memo')) = Len(MemoValue(memo))
          /\ Span(MemoValue(memo')) = Span(MemoValue(memo))
          /\ \A k \in 1 .. Points :
                MemoValue(memo')[k].price =
                    FlooredPrice(FinalPrice(trendPrice(k - 1),
                                            Draw(rolls, pos, k - 1)))
          /\ analytics' = analytics
          /\ loading' = loading
          /\ error' = error]_vars

C10_Witness ==
    /\ selectedTimeFrame = "ALL"
    /\ Len(rolls) = 5
    /\ memo.at # pos
    /\ currentPrice = Num(100)
    /\ Len(chartData) = 24

-----------------------------------------------------------------------------
(* Claims about the fetch lifecycle *)

\* a step consumed the result of the k-th pending call
Consumed(k) ==
    /\ k \in 1 .. Len(inflight)
    /\ inflight' = RemoveAt(inflight, k)

\* C1 (as claimed): at most one getTokenAnalytics call is pending at a time,
\* and the result of a call is never applied once a later call has been
\* started.
C1_SingleFlightNoStaleResult ==
    [][/\ Len(inflight') <= 1
       /\ \A k \in 1 .. Len(inflight) : Consumed(k) => inflight[k].latest]_vars

\* C2 (as claimed): the result of a call that arrives while the modal is
\* closed is discarded: analytics, error and loading stay as they are.
C2_ClosedDiscardsResult ==
    [][(~isOpen /\ \E k \in 1 .. Len(inflight) : Consumed(k)) =>
          UNCHANGED <<analytics, error, loading>>]_vars

\* C3 (as claimed): when the call fails, error is "Failed to load token
\* data", loading is false, analytics is as before, and the view is the
\* error branch with its Retry button.
C3_FailureOffersRetry ==
    [][(\E k \in 1 .. Len(inflight) : FetchRejected(k)) =>
          /\ error' = "Failed to load token data"
          /\ loading' = FALSE
          /\ analytics' = analytics
          /\ View' = "retry"]_vars

\* C3 (amended): when the call fails, error is "Failed to load token data",
\* loading is false and analytics is as before; the view is the error branch
\* with its Retry button if a tokenMint is still set, and nothing at all if
\* tokenMint has become null meanwhile.  A click on Retry starts a fetch for
\* the current tokenMint.
C3_FailureAsAWhole ==
    [][/\ (\E k \in 1 .. Len(inflight) : FetchRejected(k)) =>
             /\ error' = "Failed to load token data"
             /\ loading' = FALSE
             /\ analytics' = analytics
             /\ View' = IF tokenMint = "" THEN "none" ELSE "retry"
       /\ Retry =>
             /\ View = "retry"
             /\ loading' = TRUE
             /\ error' = ""
             /\ Len(inflight') = Len(inflight) + 1
             /\ inflight'[Len(inflight')].mint = tokenMint]_vars

C3_Witness ==
    /\ error = "Failed to load token data"
    /\ loading = FALSE
    /\ analytics # <<>>
    /\ inflight = <<>>
    /\ View = "retry"

-----------------------------------------------------------------------------
(* Claims about the header *)

fetchedSymbol == IF analytics = <<>> THEN <<>> ELSE analytics[1].details.symbol
heldSymbol ==
    IF existingTokenData = <<>> THEN <<>> ELSE existingTokenData[1].symbol
fetchedLogo == IF analytics = <<>> THEN "" ELSE analytics[1].details.logoUri
heldLogo ==
    IF existingTokenData = <<>> THEN "" ELSE existingTokenData[1].logoUri

\* u is s in upper case: the same letters, position by position, each in
\* its capital form
IsUpperCaseOf(u, s) ==
    /\ Len(u) = Len(s)
    /\ \A i \in 1 .. Len(s) :
          \E k \in 1 .. Len(UpperCase) :
              /\ u[i] = UpperCase[k]
              /\ s[i] \in {LowerCase[k], UpperCase[k]}

\* C7: the displayed symbol is the upper-cased fetched symbol if there is
\* one, else the upper-cased symbol of the existing record if there is one,
\* else the upper-cased tokenSymbol hint if there is one, else "ASSET"; the
\* stored record is still the provider's (not upper-cased).
C7_SymbolPriority ==
    /\ fetchedSymbol # <<>> => IsUpperCaseOf(headerSymbol, fetchedSymbol)
    /\ (fetchedSymbol = <<>> /\ heldSymbol # <<>>) =>
            IsUpperCaseOf(headerSymbol, heldSymbol)
    /\ (fetchedSymbol = <<>> /\ heldSymbol = <<>> /\ tokenSymbol # <<>>) =>
            IsUpperCaseOf(headerSymbol, tokenSymbol)
    /\ (fetchedSymbol = <<>> /\ heldSymbol = <<>> /\ tokenSymbol = <<>>) =>
            headerSymbol = <<"A", "S", "S", "E", "T">>
    /\ analytics # <<>> =>
            analytics[1] \in Responses(analytics[1].details.mint)

C7_Witness ==
    /\ analytics # <<>>
    /\ fetchedSymbol = <<>>
    /\ existingTokenData # <<>>
    /\ heldSymbol = <<"w", "S", "y", "m">>
    /\ tokenSymbol = <<"t", "k", "B">>
    /\ headerSymbol = <<"W", "S", "Y", "M">>

\* C8 (as claimed): for the native mint the logo is SOL_LOGO_URI whatever
\* the fetched and the existing record are (also without an existing
\* record); otherwise it is the fetched logo if present, else the existing
\* record's logo if present, else none.
C8_LogoMerge ==
    headerLogo =
        IF tokenMint = SOL_MINT THEN SOL_LOGO_URI
        ELSE IF fetchedLogo # "" THEN fetchedLogo
        ELSE IF heldLogo # "" THEN heldLogo
        ELSE ""

\* the <<logo, name, symbol>> headers the token with this mint can have with
\* the current hint and existing record: before its fetch settles, and after
\* it settled with one of the provider's records for this mint
HeadersOf(mint) ==
    {<<HeaderLogo(an, existingTokenData), HeaderName(an, existingTokenData),
       HeaderSymbol(an, existingTokenData, tokenSymbol)>> :
         an \in {<<>>} \cup {<<r>> : r \in Responses(mint)}}

\* C11 (as claimed): whenever the modal has a tokenMint, the header's logo,
\* name and symbol are those of the token with that mint, never those of a
\* token fetched before.
C11_HeaderOfCurrentToken ==
    tokenMint # "" =>
        <<headerLogo, headerName, headerSymbol>> \in HeadersOf(tokenMint)

-----------------------------------------------------------------------------
(* Claims about the loading flag *)

\* C12 (as claimed): loading is true exactly when a getTokenAnalytics call
\* is pending.
C12_LoadingTracksFetch == loading <=> inflight # <<>>

====
